---- MODULE Spec2Model ----
(***************************************************************************)
(* Mass string replacement: the FastReplacer pipeline of                   *)
(* Mass_String_Replacement.py (replacement table, sanitizer, whole-word    *)
(* regex engine, chunked parallel runner, cell splitter) and the           *)
(* ArticleReplacer variant of main.py.                                     *)
(*                                                                         *)
(* A text is a sequence of characters; a character is a string.  The       *)
(* characters the model uses are listed under "Characters".                *)
(***************************************************************************)
EXTENDS Integers, Sequences, FiniteSets, TLC

VARIABLES
    pc,                \* position of the run
    replacements_file, \* the replacement workbook picked by the user
    articles_file,     \* the articles workbook picked by the user
    replacements,      \* FastReplacer.replacements / ArticleReplacer's all_replacements
    config_error,      \* load_replacements logged an ERROR and returned
    articles,          \* process_articles: the list of article texts
    tasks,             \* the calls executor.map submitted: <<chunk, start_index, total>>
    results,           \* per task: Pending, or what process_chunk returned or raised
    overtook,          \* a task has completed while an earlier task was still pending
    updated_articles,  \* process_articles: the reassembled texts
    split_data,        \* process_articles: the fragments of every text
    output,            \* the workbook written by to_excel, or NoOutput
    progress,          \* the values progress_callback was called with, in order
    dialogs,           \* the message boxes shown, in order
    text,              \* the text given to / rewritten by replace_text, split_long_text
    prev,              \* the running text before the rule applied last
    hits,              \* where the rule applied last matched in prev (starts)
    tags,              \* per character of text: 0 = from the input, j = inserted by rule j
    rewrote,           \* a rule matched over characters a rule with a longer key inserted
    idx,               \* replace_text: number of rules applied so far
    result             \* what the call returned or raised

vars == <<pc, replacements_file, articles_file, replacements, config_error, articles,
          tasks, results, overtook, updated_articles, split_data, output, progress,
          dialogs, text, prev, hits, tags, rewrote, idx, result>>

(***************************************************************************)
(* Bounds of the model.                                                    *)
(***************************************************************************)
MaxParts == 2      \* From/To column pairs of a replacement workbook
MaxRows == 2       \* rows of a replacement workbook
MaxRules == 2      \* rows of the workbooks the replace_text pass is run on
MaxTextLen == 5    \* length of the texts the replace_text pass is run on
MaxFragments == 2  \* texts given to split_long_text reach MaxFragments cells and a bit
MaxShift == 2      \* rotations of the article corpus

(***************************************************************************)
(* Program constants.                                                      *)
(***************************************************************************)
MAX_CELL_LENGTH == 32767
MIN_CHUNK_SIZE == 1000
CHUNK_DIVISOR == 4
PROGRESS_REPLACED == 70
PROGRESS_DONE == 100

(***************************************************************************)
(* Generic helpers.                                                        *)
(***************************************************************************)
Min(a, b) == IF a < b THEN a ELSE b
Max(a, b) == IF a > b THEN a ELSE b
SeqsUpTo(S, n) == UNION {[1..k -> S] : k \in 0..n}
Range(s) == {s[i] : i \in 1..Len(s)}

RECURSIVE Flatten(_)
Flatten(ss) == IF ss = <<>> THEN <<>> ELSE Head(ss) \o Flatten(Tail(ss))

(***************************************************************************)
(* Characters.  "c", "C", "n" are letters; " " is the space; "." is a      *)
(* printable character that is special in a regular expression; "\\" is    *)
(* the backslash; "\t" and "\n" are control characters; "ZWSP" is U+200B   *)
(* and "FWC" is U+FF23 (fullwidth C); "0" .. "9" are the digits.            *)
(***************************************************************************)
Digits == <<"0", "1", "2", "3", "4", "5", "6", "7", "8", "9">>
WordChars == {"c", "C", "n", "FWC"} \cup Range(Digits)
SpaceChars == {" ", "\t", "\n"}
NonPrintable == {"\t", "\n", "ZWSP", "BOM"}
\* re.escape: _special_chars_map
SpecialChars == {" ", ".", "\\", "\t", "\n"}
AsciiLetters == {"c", "C", "n"}

IsWord(c) == c \in WordChars
IsSpace(c) == c \in SpaceChars
IsPrintable(c) == c \notin NonPrintable
\* re.IGNORECASE: two characters match when their lower-case forms are equal
Lower(c) == IF c = "C" THEN "c" ELSE IF c = "FWC" THEN "fwc" ELSE c
\* unicodedata.normalize("NFKC", .) on one character
NFKC_char(c) == IF c = "FWC" THEN <<"C">> ELSE <<c>>

\* str.strip()
Strip(s) ==
    LET keep == {i \in 1..Len(s) : ~IsSpace(s[i])}
    IN  IF keep = {} THEN <<>>
        ELSE LET lo == CHOOSE i \in keep : \A j \in keep : i <= j
                 hi == CHOOSE i \in keep : \A j \in keep : j <= i
             IN  SubSeq(s, lo, hi)

\* text.replace(c, "") for every character c of drop
RECURSIVE Filter(_, _)
Filter(s, drop) ==
    IF s = <<>> THEN <<>>
    ELSE IF Head(s) \in drop THEN Filter(Tail(s), drop)
    ELSE <<Head(s)>> \o Filter(Tail(s), drop)

(***************************************************************************)
(* Workbooks.  A cell is missing (NaN) or holds a string.                  *)
(***************************************************************************)
NaN == [na |-> TRUE, s |-> <<>>]
Cell(s) == [na |-> FALSE, s |-> s]

(***************************************************************************)
(* FastReplacer.load_replacements                                          *)
(***************************************************************************)
\* re.escape(key)
RECURSIVE re_escape(_)
re_escape(key) ==
    IF key = <<>> THEN <<>>
    ELSE (IF Head(key) \in SpecialChars THEN <<"\\", Head(key)>> ELSE <<Head(key)>>)
         \o re_escape(Tail(key))

\* a faulty variant: sorted ascending
RECURSIVE InsertAscending(_, _)
InsertAscending(r, sorted) ==
    IF sorted = <<>> THEN <<r>>
    ELSE IF Len(Head(sorted).key) <= Len(r.key)
         THEN <<Head(sorted)>> \o InsertAscending(r, Tail(sorted))
         ELSE <<r>> \o sorted

\* list.sort(key=lambda x: len(x[0]), reverse=True): stable, longest key first.
\* Insert r, which came after the rules of `sorted` in the list.
RECURSIVE InsertSorted(_, _)
InsertSorted(r, sorted) ==
    IF sorted = <<>> THEN <<r>>
    ELSE IF Len(Head(sorted).key) >= Len(r.key)
         THEN <<Head(sorted)>> \o InsertSorted(r, Tail(sorted))
         ELSE <<r>> \o sorted

RECURSIVE SortByKeyLength(_)
SortByKeyLength(rules) ==
    IF rules = <<>> THEN <<>>
    ELSE InsertSorted(rules[Len(rules)], SortByKeyLength(SubSeq(rules, 1, Len(rules) - 1)))

\* bool(key and value) for two str cells
Truthy(s) == s # <<>>

\* The rules one From/To column pair appends, in row order.  A rule is the
\* tuple (re.escape(key), value); cell is the From cell it was made from
\* (not part of the tuple: kept to state properties of the table).
RECURSIVE RulesOfPart(_)
RulesOfPart(rows) ==
    IF rows = <<>> THEN <<>>
    ELSE LET row == Head(rows)
         IN  (IF ~row.from.na /\ ~row.to.na /\ Truthy(row.from.s) /\ Truthy(row.to.s)
              THEN <<[key |-> re_escape(row.from.s), value |-> row.to.s, cell |-> row.from.s]>>
              ELSE <<>>)
             \o RulesOfPart(Tail(rows))

\* zip(replace_from_cols, replace_to_cols)
PairedParts(file) == SubSeq(file.parts, 1, Min(file.from_cols, file.to_cols))

\* load_replacements fails: the workbook cannot be read, or a header is missing
LoadFails(file) == ~file.readable \/ file.from_cols = 0 \/ file.to_cols = 0

load_replacements(file) ==
    IF LoadFails(file) THEN <<>>
    ELSE SortByKeyLength(Flatten([p \in 1..Len(PairedParts(file)) |->
                                     RulesOfPart(PairedParts(file)[p])]))

(***************************************************************************)
(* FastReplacer.sanitize_text                                              *)
(***************************************************************************)
NFKC(s) == Flatten([i \in 1..Len(s) |-> NFKC_char(s[i])])

sanitize_text(t) ==
    IF Strip(t) = <<>> THEN <<>>
    ELSE Strip(Filter(SelectSeq(NFKC(t), IsPrintable), {"ZWSP", "BOM"}))

(***************************************************************************)
(* re.sub(fr'\b{key}\b', value, text, flags=re.IGNORECASE)                 *)
(***************************************************************************)
\* The literal a pattern made by re.escape matches: backslash + c is c.
RECURSIVE PatternLiteral(_)
PatternLiteral(p) ==
    IF p = <<>> THEN <<>>
    ELSE IF Head(p) = "\\" /\ Len(p) >= 2 THEN <<p[2]>> \o PatternLiteral(Tail(Tail(p)))
    ELSE <<Head(p)>> \o PatternLiteral(Tail(p))

\* \b between t[p] and t[p+1] (p = 0: the start; p = Len(t): the end)
Boundary(t, p) ==
    (p >= 1 /\ IsWord(t[p])) # (p < Len(t) /\ IsWord(t[p + 1]))

\* a faulty variant: no word boundaries
MatchAnywhere(t, lit, i) ==
    /\ i + Len(lit) - 1 <= Len(t)
    /\ \A k \in 1..Len(lit) : Lower(t[i + k - 1]) = Lower(lit[k])

\* the pattern matches at position i of t
MatchAt(t, lit, i) ==
    /\ i + Len(lit) - 1 <= Len(t)
    /\ Boundary(t, i - 1)
    /\ \A k \in 1..Len(lit) : Lower(t[i + k - 1]) = Lower(lit[k])
    /\ Boundary(t, i + Len(lit) - 1)

\* the starts of the matches re.sub replaces: leftmost first, not overlapping
RECURSIVE Scan(_, _, _)
Scan(t, lit, i) ==
    IF i > Len(t) THEN {}
    ELSE IF MatchAt(t, lit, i) THEN {i} \cup Scan(t, lit, i + Len(lit))
    ELSE Scan(t, lit, i + 1)

\* t with the span of length n at every start replaced by repl
RECURSIVE Rebuild(_, _, _, _, _)
Rebuild(t, starts, n, repl, i) ==
    IF i > Len(t) THEN <<>>
    ELSE IF i \in starts THEN repl \o Rebuild(t, starts, n, repl, i + n)
    ELSE <<t[i]>> \o Rebuild(t, starts, n, repl, i + 1)

\* sre_parse.parse_template on a replacement string: the text it inserts, or
\* BadTemplate when re.sub raises re.error.  (The characters of the model
\* hold no digit and no "g": a template of the model names no group.)
BadTemplate == <<"re.error">>
RECURSIVE ExpandFrom(_)
ExpandFrom(v) ==
    IF v = <<>> THEN <<>>
    ELSE IF Head(v) # "\\" THEN
        LET rest == ExpandFrom(Tail(v))
        IN  IF rest = BadTemplate THEN BadTemplate ELSE <<Head(v)>> \o rest
    ELSE IF Len(v) = 1 THEN BadTemplate                      \* bad escape (end of pattern)
    ELSE LET c == v[2]
             rest == ExpandFrom(Tail(Tail(v)))
         IN  IF rest = BadTemplate THEN BadTemplate
             ELSE IF c = "n" THEN <<"\n">> \o rest             \* ESCAPES
             ELSE IF c = "\\" THEN <<"\\">> \o rest
             ELSE IF c \in AsciiLetters THEN BadTemplate      \* bad escape \c
             ELSE <<"\\", c>> \o rest                         \* kept as written

parse_template(v) == ExpandFrom(v)

(***************************************************************************)
(* FastReplacer.replace_text                                               *)
(***************************************************************************)
Raised == [ok |-> FALSE, text |-> <<>>]
Returned(t) == [ok |-> TRUE, text |-> t]

\* one turn of the loop: re.sub for one rule
re_sub(rule, t) ==
    LET lit == PatternLiteral(rule.key)
        repl == parse_template(rule.value)
    IN  IF repl = BadTemplate THEN Raised
        ELSE Returned(Rebuild(t, Scan(t, lit, 1), Len(lit), repl, 1))

RECURSIVE ApplyRules(_, _)
ApplyRules(rules, t) ==
    IF rules = <<>> THEN Returned(t)
    ELSE LET r == re_sub(Head(rules), t)
         IN  IF r.ok THEN ApplyRules(Tail(rules), r.text) ELSE Raised

replace_text(rules, t) ==
    IF Strip(t) = <<>> THEN Returned(<<>>)
    ELSE ApplyRules(rules, sanitize_text(t))

(***************************************************************************)
(* Values of the variables a specification does not use.                   *)
(***************************************************************************)
NoArticlesFile == [exists |-> FALSE, readable |-> FALSE, columns |-> 0, cells |-> <<>>]
NoOutput == [written |-> FALSE, rows |-> <<>>, columns |-> 0]
NoResult == [ok |-> FALSE, text |-> <<"no result">>]

RunnerIdle ==
    /\ articles_file = NoArticlesFile /\ articles = <<>> /\ tasks = <<>> /\ results = <<>>
    /\ overtook = FALSE
    /\ updated_articles = <<>> /\ split_data = <<>> /\ output = NoOutput
    /\ progress = <<>> /\ dialogs = <<>>
PassIdle ==
    /\ text = <<>> /\ prev = <<>> /\ hits = {} /\ tags = <<>> /\ rewrote = FALSE
    /\ idx = 0 /\ result = NoResult

runner_vars == <<articles_file, articles, tasks, results, overtook, updated_articles, split_data,
                 output, progress, dialogs>>
pass_vars == <<text, prev, hits, tags, rewrote, idx, result>>

(***************************************************************************)
(* The replace_text pass, one rule at a time (SpecReplace).                *)
(***************************************************************************)
ReplacementsFile(parts, nfrom, nto, readable) ==
    [exists |-> TRUE, readable |-> readable, from_cols |-> nfrom, to_cols |-> nto,
     parts |-> parts]
Row(f, t) == [from |-> f, to |-> t]

PassRows ==
    { Row(Cell(<<"c", " ", "c">>), Cell(<<"c">>)),
      Row(Cell(<<"c">>), Cell(<<"n">>)),
      Row(Cell(<<"c", "c">>), Cell(<<"c", " ", "c">>)),
      Row(Cell(<<"c">>), Cell(<<"\\">>)),
      Row(Cell(<<"n">>), Cell(<<"\\", "n">>)),
      Row(Cell(<<" ">>), Cell(<<"c", ".">>)) }
PassFiles ==
    {ReplacementsFile(<<rows>>, 1, 1, TRUE) : rows \in SeqsUpTo(PassRows, MaxRules)}
PassTexts ==
    SeqsUpTo({"c", " "}, MaxTextLen)
    \cup { <<"C">>, <<"C", " ", "c">>, <<"c", ".", "c">>, <<"c", "\t", "c">>,
           <<"FWC">>, <<"ZWSP", "c">>, <<"n", " ", "c">>, <<"c", "C">>,
           <<"C", " ", "c", "c">>, <<"c", " ", "C", " ", "c">> }

InitReplace ==
    /\ pc = "new"
    /\ replacements_file \in PassFiles
    /\ replacements = <<>> /\ config_error = FALSE
    /\ RunnerIdle
    /\ text \in PassTexts
    /\ prev = <<>> /\ hits = {} /\ tags = <<>> /\ rewrote = FALSE /\ idx = 0
    /\ result = NoResult

\* FastReplacer.__init__
FastReplacer_init ==
    /\ pc = "new"
    /\ replacements' = load_replacements(replacements_file)
    /\ config_error' = LoadFails(replacements_file)
    /\ pc' = "loaded"
    /\ UNCHANGED <<replacements_file, runner_vars, pass_vars>>

\* replace_text up to its loop: the blank check and sanitize_text
replace_text_enter ==
    /\ pc = "loaded"
    /\ IF Strip(text) = <<>>
       THEN /\ result' = Returned(<<>>)
            /\ pc' = "returned"
            /\ UNCHANGED <<text, tags>>
       ELSE /\ text' = sanitize_text(text)
            /\ tags' = [i \in 1..Len(sanitize_text(text)) |-> 0]
            /\ pc' = "loop"
            /\ UNCHANGED result
    /\ UNCHANGED <<replacements_file, replacements, config_error, runner_vars,
                   prev, hits, rewrote, idx>>

\* one turn of the loop of replace_text
replace_text_rule ==
    /\ pc = "loop"
    /\ idx < Len(replacements)
    /\ LET rule == replacements[idx + 1]
           lit == PatternLiteral(rule.key)
           r == re_sub(rule, text)
           found == Scan(text, lit, 1)
       IN  IF ~r.ok
           THEN /\ result' = Raised
                /\ pc' = "raised"
                /\ UNCHANGED <<text, prev, hits, tags, rewrote, idx>>
           ELSE /\ text' = r.text
                /\ prev' = text
                /\ hits' = found
                /\ tags' = Rebuild(tags, found, Len(lit),
                                   [k \in 1..Len(parse_template(rule.value)) |-> idx + 1], 1)
                /\ rewrote' = (rewrote \/ \E h \in found : \E k \in h..(h + Len(lit) - 1) :
                                 /\ tags[k] # 0
                                 /\ Len(replacements[tags[k]].cell) > Len(rule.cell))
                /\ idx' = idx + 1
                /\ UNCHANGED <<pc, result>>
    /\ UNCHANGED <<replacements_file, replacements, config_error, runner_vars>>

\* replace_text: return text
replace_text_return ==
    /\ pc = "loop"
    /\ idx = Len(replacements)
    /\ result' = Returned(text)
    /\ pc' = "returned"
    /\ UNCHANGED <<replacements_file, replacements, config_error, runner_vars,
                   text, prev, hits, tags, rewrote, idx>>

NextReplace ==
    \/ FastReplacer_init
    \/ replace_text_enter
    \/ replace_text_rule
    \/ replace_text_return

SpecReplace == InitReplace /\ [][NextReplace]_vars

(***************************************************************************)
(* Properties of the replace_text pass.                                    *)
(***************************************************************************)
\* a rule has been applied and the pass went on: prev, hits and text are its
AfterRule == pc \in {"loop", "returned"} /\ idx >= 1
LastRule == replacements[idx]

SameIgnoringCase(a, b) ==
    Len(a) = Len(b) /\ \A k \in 1..Len(a) : Lower(a[k]) = Lower(b[k])
\* a word boundary lies between t[p] and t[p+1]
IsWordBoundary(t, p) ==
    LET before == IF p = 0 THEN FALSE ELSE t[p] \in WordChars
        after == IF p = Len(t) THEN FALSE ELSE t[p + 1] \in WordChars
    IN  before # after
\* key occurs in t at i, in any case
OccursAt(t, key, i) ==
    i + Len(key) - 1 <= Len(t) /\ SameIgnoringCase(SubSeq(t, i, i + Len(key) - 1), key)
\* the occurrences of key in t that are bounded by word boundaries on both sides
WholeWordOccurrences(t, key) ==
    {i \in 1..Len(t) : /\ OccursAt(t, key, i)
                       /\ IsWordBoundary(t, i - 1)
                       /\ IsWordBoundary(t, i + Len(key) - 1)}
\* position p of prev lies in a replaced span
Covered(p, n) == \E h \in hits : h <= p /\ p < h + n
\* where position p of prev (not in a span, or the start of one) lies in text
NewPos(p, n, m) == p + (m - n) * Cardinality({h \in hits : h + n <= p})

ProperSubstring(a, b) ==
    Len(a) < Len(b) /\ \E i \in 1..(Len(b) - Len(a) + 1) : SubSeq(b, i, i + Len(a) - 1) = a

\* C8 as stated: within one replace_text pass a shorter key never re-matches
\* inside the text a longer key's substitution inserted earlier in the pass.
C8_InsertedTextNeverRewritten ==
    ~rewrote

\* C8 amended: within one replace_text pass a key that is a proper substring
\* of a longer key is applied after the longer key, so it never matches inside
\* an occurrence of the longer key before the longer key's rule has rewritten
\* the text (text an earlier rule inserted is rewritten by a later rule
\* whose key occurs in it as a whole word).
C8_SubstringKeyAppliedAfterLongerKey ==
    pc \in {"loop", "returned", "raised"} =>
        \A j \in 1..idx : \A i \in (idx + 1)..Len(replacements) :
            ~ProperSubstring(replacements[j].cell, replacements[i].cell)

\* a pass over a table holding a key and a proper substring of it has
\* returned, and its later rule rewrote what its earlier rule inserted
C8_Witness ==
    /\ pc = "returned" /\ idx = Len(replacements) /\ rewrote
    /\ \E i, j \in 1..Len(replacements) :
          i < j /\ ProperSubstring(replacements[j].cell, replacements[i].cell)

(***************************************************************************)
(* Loading a replacement workbook (SpecLoad).                              *)
(***************************************************************************)
LoadRows ==
    { Row(NaN, Cell(<<"c">>)),
      Row(Cell(<<"c">>), NaN),
      Row(Cell(<<>>), Cell(<<"c">>)),
      Row(Cell(<<" ">>), Cell(<<"n">>)),
      Row(Cell(<<"c">>), Cell(<<" ">>)),
      Row(Cell(<<"c", ".", "c", ".">>), Cell(<<"n">>)),
      Row(Cell(<<"c", "c", "c", "c", "c">>), Cell(<<"c">>)),
      Row(Cell(<<"c", " ", "c">>), Cell(<<"n">>)) }
\* the rows of the column pairs after the first
MoreRows ==
    { Row(Cell(<<"n">>), Cell(<<"c">>)),
      Row(NaN, Cell(<<"c">>)) }
\* np column pairs of n rows: the first filled from `first`, the others from `more`
PartsOf(np, n, first, more) ==
    IF np = 0 THEN {<<>>}
    ELSE {<<a>> \o b : a \in [1..n -> first], b \in [1..(np - 1) -> [1..n -> more]]}
\* the workbooks: one that cannot be read, and every number of From and of To
\* columns, the paired columns filled with the same number of rows
IsLoadFile(file) ==
    \/ file = ReplacementsFile(<<>>, 0, 0, FALSE)
    \/ \E nfrom, nto \in 0..MaxParts : \E n \in 0..MaxRows :
          \E parts \in PartsOf(Min(nfrom, nto), n, LoadRows, MoreRows) :
              file = ReplacementsFile(parts, nfrom, nto, TRUE)

InitLoad ==
    /\ pc = "new"
    /\ IsLoadFile(replacements_file)
    /\ replacements = <<>> /\ config_error = FALSE
    /\ RunnerIdle /\ PassIdle

NextLoad == FastReplacer_init

SpecLoad == InitLoad /\ [][NextLoad]_vars

\* C5: after load_replacements the table is sorted by matchKey length
\* descending: a rule whose From cell text is strictly longer comes before a
\* rule whose From cell text is shorter, whatever characters the keys hold.
C5_LongerKeyFirst ==
    pc = "loaded" =>
        \A i, j \in 1..Len(replacements) :
            Len(replacements[i].cell) > Len(replacements[j].cell) => i < j

\* C6: every rule of the compiled table has a matchKey and a
\* replacementValue that are non-empty after trimming whitespace.
C6_RulesNonEmptyAfterTrim ==
    pc = "loaded" =>
        \A i \in 1..Len(replacements) :
            Strip(replacements[i].cell) # <<>> /\ Strip(replacements[i].value) # <<>>

(***************************************************************************)
(* ArticleReplacer (main.py): prepare_replacements and process_article     *)
(* (SpecMain).                                                             *)
(***************************************************************************)
\* DataFrame.dropna(how="all", subset=...): the rows where some cell is present
AR_KeptRows(file) ==
    LET parts == file.parts
        n == IF parts = <<>> THEN 0 ELSE Len(parts[1])
    IN  {r \in 1..n : \E p \in 1..Len(parts) : ~parts[p][r].from.na \/ ~parts[p][r].to.na}

RECURSIVE AR_PairsOfPart(_, _, _)
AR_PairsOfPart(rows, kept, r) ==
    IF r > Len(rows) THEN <<>>
    ELSE (IF r \in kept /\ ~rows[r].from.na /\ ~rows[r].to.na
             /\ Strip(rows[r].from.s) # <<>> /\ Strip(rows[r].to.s) # <<>>
          THEN <<<<Strip(rows[r].to.s), Strip(rows[r].from.s)>>>>   \* (to_value, from_value)
          ELSE <<>>)
         \o AR_PairsOfPart(rows, kept, r + 1)

prepare_replacements(file) ==
    Flatten([p \in 1..Len(PairedParts(file)) |->
                AR_PairsOfPart(PairedParts(file)[p], AR_KeptRows(file), 1)])

\* str.replace(old, new), old not empty
RECURSIVE str_replace(_, _, _)
str_replace(t, old, new) ==
    IF Len(t) < Len(old) THEN t
    ELSE IF SubSeq(t, 1, Len(old)) = old
         THEN new \o str_replace(SubSeq(t, Len(old) + 1, Len(t)), old, new)
         ELSE <<Head(t)>> \o str_replace(Tail(t), old, new)

\* ArticleReplacer.replace_text(text, replacements), given what process_article
\* gives it: one (to_value, from_value) tuple.  Its items are strings, so the
\* isinstance(item, tuple) test fails for each and "old, new = item" unpacks
\* the string: two characters, or ValueError.
RECURSIVE AR_replace_text(_, _)
AR_replace_text(t, items) ==
    IF items = <<>> THEN Returned(t)
    ELSE LET item == Head(items)
         IN  IF Len(item) # 2 THEN Raised
             ELSE AR_replace_text(str_replace(t, <<item[1]>>, <<item[2]>>), Tail(items))

RECURSIVE process_article(_, _)
process_article(t, all_replacements) ==
    IF all_replacements = <<>> THEN Returned(t)
    ELSE LET r == AR_replace_text(t, Head(all_replacements))
         IN  IF r.ok THEN process_article(r.text, Tail(all_replacements)) ELSE Raised

MainRows ==
    { Row(Cell(<<"c">>), Cell(<<"n">>)),
      Row(Cell(<<"c", "n">>), Cell(<<"n", "c">>)),
      Row(Cell(<<" ", "c", "c">>), Cell(<<"n", "n", " ">>)),
      Row(Cell(<<"c", " ", "c">>), Cell(<<"n">>)),
      Row(NaN, NaN),
      Row(Cell(<<"c">>), NaN),
      Row(Cell(<<" ">>), Cell(<<"n">>)) }
IsMainFile(file) ==
    \E np \in 1..MaxParts : \E parts \in PartsOf(np, MaxRows, MainRows, MoreRows) :
        file = ReplacementsFile(parts, np, np, TRUE)
MainTexts == SeqsUpTo({"c", "n", " "}, 3)

InitMain ==
    /\ pc = "new"
    /\ IsMainFile(replacements_file)
    /\ replacements = <<>> /\ config_error = FALSE
    /\ RunnerIdle
    /\ text \in MainTexts
    /\ prev = <<>> /\ hits = {} /\ tags = <<>> /\ rewrote = FALSE /\ idx = 0
    /\ result = NoResult

\* ArticleReplacer.run: all_replacements = self.prepare_replacements(replacements_df)
AR_prepare ==
    /\ pc = "new"
    /\ replacements' = prepare_replacements(replacements_file)
    /\ pc' = "prepared"
    /\ UNCHANGED <<replacements_file, config_error, runner_vars, pass_vars>>

\* a worker's call of process_article(text, all_replacements)
AR_process_article ==
    /\ pc = "prepared"
    /\ result' = process_article(text, replacements)
    /\ pc' = IF process_article(text, replacements).ok THEN "returned" ELSE "raised"
    /\ UNCHANGED <<replacements_file, replacements, config_error, runner_vars,
                   text, prev, hits, tags, rewrote, idx>>

NextMain == AR_prepare \/ AR_process_article

SpecMain == InitMain /\ [][NextMain]_vars

\* exact substring mode: every occurrence of each rule's From value,
\* in table order, replaced by its To value
RECURSIVE ExactSubstringMode(_, _)
ExactSubstringMode(t, pairs) ==
    IF pairs = <<>> THEN t
    ELSE ExactSubstringMode(str_replace(t, Head(pairs)[2], Head(pairs)[1]), Tail(pairs))

\* C9: process_article, given the table built by prepare_replacements,
\* returns without raising the text in which every occurrence of each
\* rule's From value as a literal, case-sensitive substring is replaced by
\* its To value.
C9_ExactSubstringReplacement ==
    pc \in {"returned", "raised"} =>
        result.ok /\ result.text = ExactSubstringMode(text, replacements)

(***************************************************************************)
(* FastReplacer.split_long_text (SpecSplit).                               *)
(***************************************************************************)
\* range(0, stop, step) as a sequence
PyRange(stop, step) == [k \in 1..((stop + step - 1) \div step) |-> (k - 1) * step]
\* s[i:j], 0 <= i <= j
Slice(s, i, j) == SubSeq(s, i + 1, Min(j, Len(s)))

\* a faulty variant: the starts one cell too far apart
SplitStartsWide(t) == PyRange(Len(t), MAX_CELL_LENGTH + 1)

\* range(0, len(text), MAX_CELL_LENGTH)
SplitStarts(t) == PyRange(Len(t), MAX_CELL_LENGTH)

split_long_text(t) ==
    [k \in 1..Len(SplitStarts(t)) |->
        Slice(t, SplitStarts(t)[k], SplitStarts(t)[k] + MAX_CELL_LENGTH)]

\* the texts to split: every length within 2 of a multiple of the cell
\* length, filled with a cycle of seven characters started at any of them
Cycle == <<"c", "C", "n", " ", ".", "\t", "\\">>
SplitLengths ==
    {k * MAX_CELL_LENGTH + d : k \in 0..MaxFragments, d \in -2..2} \cap Nat
SplitTexts ==
    {[i \in 1..n |-> Cycle[((i + shift) % 7) + 1]] : n \in SplitLengths, shift \in 0..6}

InitSplit ==
    /\ pc = "text"
    /\ replacements_file = ReplacementsFile(<<>>, 0, 0, FALSE)
    /\ replacements = <<>> /\ config_error = FALSE
    /\ RunnerIdle
    /\ text \in SplitTexts
    /\ prev = <<>> /\ hits = {} /\ tags = <<>> /\ rewrote = FALSE /\ idx = 0
    /\ result = NoResult

\* a call of split_long_text(text)
split_text ==
    /\ pc = "text"
    /\ split_data' = <<split_long_text(text)>>
    /\ pc' = "split"
    /\ UNCHANGED <<replacements_file, replacements, config_error, articles_file, articles,
                   tasks, results, overtook, updated_articles, output, progress, dialogs,
                   pass_vars>>

NextSplit == split_text

SpecSplit == InitSplit /\ [][NextSplit]_vars

\* the number of characters in the fragments before fragment k
RECURSIVE Offset(_, _)
Offset(frags, k) == IF k = 1 THEN 0 ELSE Offset(frags, k - 1) + Len(frags[k - 1])

\* C4: the fragments of split_long_text are non-overlapping left-to-right
\* slices of the text, their concatenation in order is the text, and none is
\* longer than MAX_CELL_LENGTH.
C4_SplitLossless ==
    pc = "split" =>
        LET frags == split_data[1]
        IN  /\ Flatten(frags) = text
            /\ \A k \in 1..Len(frags) :
                  /\ Len(frags[k]) <= MAX_CELL_LENGTH
                  /\ frags[k] = SubSeq(text, Offset(frags, k) + 1,
                                       Offset(frags, k) + Len(frags[k]))

\* a text was split into several fragments, the last one shorter than a cell
C4_Witness ==
    /\ pc = "split"
    /\ Len(split_data[1]) >= 2
    /\ Len(split_data[1][Len(split_data[1])]) < MAX_CELL_LENGTH
    /\ Len(split_data[1][1]) = MAX_CELL_LENGTH

(***************************************************************************)
(* FastReplacer.process_articles and App.start_replacer (Spec).            *)
(***************************************************************************)
\* a faulty variant: half of the articles to a chunk
chunk_size_half(n) == Max(MIN_CHUNK_SIZE, n \div 2)

\* chunk_size = max(1000, len(articles) // 4)
chunk_size(n) == Max(MIN_CHUNK_SIZE, n \div CHUNK_DIVISOR)

\* [articles[i:i + chunk_size] for i in range(0, len(articles), chunk_size)]
MapChunks(arts) ==
    LET cs == chunk_size(Len(arts))
        starts == PyRange(Len(arts), cs)
    IN  [k \in 1..Len(starts) |-> Slice(arts, starts[k], starts[k] + cs)]

\* range(0, len(articles), chunk_size)
MapStarts(arts) == PyRange(Len(arts), chunk_size(Len(arts)))

\* a faulty variant: one total for every whole chunk
MapTotalsWhole(arts) ==
    [k \in 1..(Len(arts) \div chunk_size(Len(arts))) |-> Len(arts)]

\* [len(articles)] * (len(articles) // chunk_size + 1)
MapTotals(arts) ==
    [k \in 1..(Len(arts) \div chunk_size(Len(arts)) + 1) |-> Len(arts)]

\* executor.map(fn, *iterables): one call per element of zip(*iterables)
MapCalls(arts) ==
    LET chunks == MapChunks(arts)
        starts == MapStarts(arts)
        totals == MapTotals(arts)
    IN  [k \in 1..Min(Len(chunks), Min(Len(starts), Len(totals))) |->
            [chunk |-> chunks[k], start_index |-> starts[k], total |-> totals[k]]]

Pending == [state |-> "pending", texts |-> <<>>]
\* process_chunk(chunk, start_index, total): the list of the rewritten texts,
\* or the exception of the first replace_text that raises (start_index and
\* total are only logged)
process_chunk(rules, chunk, start_index, total) ==
    LET out == [i \in 1..Len(chunk) |-> replace_text(rules, chunk[i])]
    IN  IF \E i \in 1..Len(chunk) : ~out[i].ok
        THEN [state |-> "raised", texts |-> <<>>]
        ELSE [state |-> "done", texts |-> [i \in 1..Len(chunk) |-> out[i].text]]

\* max(len(parts) for parts in split_data), split_data not empty
MaxLen(ss) == CHOOSE n \in {Len(ss[i]) : i \in 1..Len(ss)} : \A i \in 1..Len(ss) : Len(ss[i]) <= n

\* pd.DataFrame(split_data, columns=column_names): short rows are padded
NoCell == <<"None">>
PadRows(ss, width) ==
    [i \in 1..Len(ss) |-> [k \in 1..width |-> IF k <= Len(ss[i]) THEN ss[i][k] ELSE NoCell]]

\* the decimal digits of n
RECURSIVE Decimal(_)
Decimal(n) == IF n < 10 THEN <<Digits[n + 1]>> ELSE Decimal(n \div 10) \o <<Digits[(n % 10) + 1]>>

\* The articles workbooks.  Article i of a corpus is one of five texts (one
\* of them blank) followed by its own number; with gaps, the column starts
\* and ends with a missing cell.  The small corpora start at any of the
\* five texts; the large ones are those whose sizes decide the chunking.
CorpusTexts == << <<"c">>, <<"c", " ", "c">>, <<"C", "c">>, <<"n", ".", "c">>, <<" ">> >>
CorpusArticle(i, shift) ==
    LET base == CorpusTexts[((i + shift) % 5) + 1]
    IN  IF base = <<" ">> THEN base ELSE base \o <<" ">> \o Decimal(i)
SmallCounts == {1, 2, 3}
LargeCounts == {1000, 1001, 2500, 4000, 4005}
ArticlesFile(cells, columns, readable, exists) ==
    [exists |-> exists, readable |-> readable, columns |-> columns, cells |-> cells]
Corpus(n, shift, gaps) ==
    LET cells == [i \in 1..n |-> Cell(CorpusArticle(i, shift))]
    IN  IF gaps THEN <<NaN>> \o cells \o <<NaN>> ELSE cells
ArticleFiles ==
    { ArticlesFile(<<>>, 0, FALSE, FALSE),      \* no such file
      ArticlesFile(<<>>, 0, FALSE, TRUE),       \* not a workbook
      ArticlesFile(<<>>, 0, TRUE, TRUE),        \* no column
      ArticlesFile(<<>>, 1, TRUE, TRUE),        \* no row
      ArticlesFile(<<NaN, NaN>>, 2, TRUE, TRUE) }  \* rows, the first column empty
    \cup { ArticlesFile(Corpus(n, shift, gaps), 1, TRUE, TRUE) :
             n \in SmallCounts, shift \in 0..MaxShift, gaps \in BOOLEAN }
    \cup { ArticlesFile(Corpus(n, 0, TRUE), 1, TRUE, TRUE) : n \in LargeCounts }
RunFiles ==
    { ReplacementsFile(<<<<Row(Cell(<<"c", " ", "c">>), Cell(<<"c">>)),
                           Row(Cell(<<"c">>), Cell(<<"n">>))>>>>, 1, 1, TRUE),
      ReplacementsFile(<<<<Row(Cell(<<"c">>), Cell(<<"\\">>))>>>>, 1, 1, TRUE),
      ReplacementsFile(<<>>, 1, 0, TRUE),
      ReplacementsFile(<<>>, 0, 0, FALSE),
      [ReplacementsFile(<<>>, 0, 0, FALSE) EXCEPT !.exists = FALSE] }

\* df[column_name].dropna().astype(str).tolist()
IsPresent(cell) == ~cell.na
read_articles(file) ==
    [i \in 1..Len(SelectSeq(file.cells, IsPresent)) |-> SelectSeq(file.cells, IsPresent)[i].s]

Init ==
    /\ pc = "idle"
    /\ replacements_file \in RunFiles
    /\ articles_file \in ArticleFiles
    /\ replacements = <<>> /\ config_error = FALSE
    /\ articles = <<>> /\ tasks = <<>> /\ results = <<>> /\ overtook = FALSE
    /\ updated_articles = <<>> /\ split_data = <<>> /\ output = NoOutput
    /\ progress = <<>> /\ dialogs = <<>>
    /\ PassIdle

\* App.start_replacer up to the call of process_articles: the paths are
\* checked and FastReplacer is constructed (load_replacements)
start_replacer ==
    /\ pc = "idle"
    /\ IF ~articles_file.exists \/ ~replacements_file.exists
       THEN /\ dialogs' = Append(dialogs, "Error")
            /\ pc' = "done"
            /\ UNCHANGED <<replacements, config_error>>
       ELSE /\ replacements' = load_replacements(replacements_file)
            /\ config_error' = LoadFails(replacements_file)
            /\ pc' = "constructed"
            /\ UNCHANGED dialogs
    /\ UNCHANGED <<replacements_file, articles_file, articles, tasks, results, overtook,
                   updated_articles, split_data, output, progress, pass_vars>>

\* process_articles up to executor.map: the articles are read and the chunks
\* are submitted
process_articles ==
    /\ pc = "constructed"
    /\ IF \/ ~articles_file.readable
          \/ articles_file.cells = <<>> \/ articles_file.columns = 0
       THEN /\ pc' = "returned"
            /\ UNCHANGED <<articles, tasks, results>>
       ELSE LET arts == read_articles(articles_file)
            IN  /\ articles' = arts
                /\ tasks' = MapCalls(arts)
                /\ results' = [c \in 1..Len(MapCalls(arts)) |-> Pending]
                /\ pc' = "mapping"
    /\ UNCHANGED <<replacements_file, articles_file, replacements, config_error, overtook,
                   updated_articles, split_data, output, progress, dialogs, pass_vars>>

\* a worker process completes task c
worker(c) ==
    /\ pc = "mapping"
    /\ results[c] = Pending
    /\ results' = [results EXCEPT ![c] =
                      process_chunk(replacements, tasks[c].chunk, tasks[c].start_index,
                                    tasks[c].total)]
    /\ overtook' = (overtook \/ \E b \in 1..(c - 1) : results[b] = Pending)
    /\ UNCHANGED <<pc, replacements_file, articles_file, replacements, config_error,
                   articles, tasks, updated_articles, split_data, output, progress,
                   dialogs, pass_vars>>

\* list(executor.map(...)) has every result: the chunks are joined in the
\* order of submission and progress_callback(70) is called
collect ==
    /\ pc = "mapping"
    /\ \A c \in 1..Len(tasks) : results[c].state = "done"
    /\ updated_articles' = Flatten([c \in 1..Len(tasks) |-> results[c].texts])
    /\ progress' = Append(progress, PROGRESS_REPLACED)
    /\ pc' = "replaced"
    /\ UNCHANGED <<replacements_file, articles_file, replacements, config_error,
                   articles, tasks, results, overtook, split_data, output, dialogs,
                   pass_vars>>

\* list(executor.map(...)) reaches the result of a task that raised: the
\* exception leaves process_articles and start_replacer
reraise ==
    /\ pc = "mapping"
    /\ \E c \in 1..Len(tasks) :
          /\ results[c].state = "raised"
          /\ \A b \in 1..(c - 1) : results[b].state = "done"
    /\ pc' = "crashed"
    /\ UNCHANGED <<replacements_file, articles_file, replacements, config_error,
                   articles, tasks, results, overtook, updated_articles, split_data,
                   output, progress, dialogs, pass_vars>>

\* a faulty variant: the workbook is not written
split_and_save_unsaved ==
    /\ pc = "replaced"
    /\ split_data' = [i \in 1..Len(updated_articles) |-> split_long_text(updated_articles[i])]
    /\ pc' = IF updated_articles = <<>> THEN "crashed" ELSE "saved"
    /\ UNCHANGED <<replacements_file, articles_file, replacements, config_error,
                   articles, tasks, results, overtook, updated_articles, output, progress,
                   dialogs, pass_vars>>

\* the texts are split and the workbook is written; max() of no rows raises
split_and_save ==
    /\ pc = "replaced"
    /\ LET sd == [i \in 1..Len(updated_articles) |-> split_long_text(updated_articles[i])]
       IN  /\ split_data' = sd
           /\ IF sd = <<>>
              THEN pc' = "crashed" /\ UNCHANGED output
              ELSE /\ output' = [written |-> TRUE, rows |-> PadRows(sd, MaxLen(sd)),
                                 columns |-> MaxLen(sd)]
                   /\ pc' = "saved"
    /\ UNCHANGED <<replacements_file, articles_file, replacements, config_error,
                   articles, tasks, results, overtook, updated_articles, progress,
                   dialogs, pass_vars>>

\* progress_callback(100)
report_done ==
    /\ pc = "saved"
    /\ progress' = Append(progress, PROGRESS_DONE)
    /\ pc' = "returned"
    /\ UNCHANGED <<replacements_file, articles_file, replacements, config_error,
                   articles, tasks, results, overtook, updated_articles, split_data,
                   output, dialogs, pass_vars>>

\* start_replacer after process_articles returned: the Success box
show_success ==
    /\ pc = "returned"
    /\ dialogs' = Append(dialogs, "Success")
    /\ pc' = "done"
    /\ UNCHANGED <<replacements_file, articles_file, replacements, config_error,
                   articles, tasks, results, overtook, updated_articles, split_data,
                   output, progress, pass_vars>>

Next ==
    \/ start_replacer
    \/ process_articles
    \/ \E c \in 1..Len(tasks) : worker(c)
    \/ collect
    \/ reraise
    \/ split_and_save
    \/ report_done
    \/ show_success

Spec == Init /\ [][Next]_vars

(***************************************************************************)
(* Properties of the run.                                                  *)
(***************************************************************************)
\* list(executor.map(...)) returned and the chunks were joined
Collected == progress # <<>>

\* text i of the output is replace_text of article i
InOriginalOrder ==
    /\ Len(updated_articles) = Len(articles)
    /\ \A i \in 1..Len(articles) :
          replace_text(replacements, articles[i]) = Returned(updated_articles[i])

\* C1: process_articles produces exactly N processed texts and the text at
\* position i is replace_text of the i-th record, in whatever order the worker
\* processes complete their chunks: the calls made by executor.map hold every
\* article once, in order, and the joined results are in the original order.
C1_OutputInInputOrder ==
    /\ pc = "mapping" => Flatten([c \in 1..Len(tasks) |-> tasks[c].chunk]) = articles
    /\ Collected => InOriginalOrder

\* several chunks, the last one not full, were completed out of order and joined
C1_Witness ==
    /\ Collected /\ overtook
    /\ Len(tasks) >= 3
    /\ Len(tasks[Len(tasks)].chunk) < Len(tasks[1].chunk)
    /\ \E i \in 1..Len(articles) : updated_articles[i] # articles[i]

\* C2 as stated: 2500 articles are split into exactly 2 chunks.
C2_TwoChunksFor2500 ==
    Len(articles) = 2500 => Len(tasks) = 2

\* C2 amended: 2500 articles are split into exactly 3 contiguous chunks, of
\* 1000, 1000 and 500 articles (chunk size max(1000, 2500 // 4) = 1000), and
\* the results of the chunks are joined in the original order.
C2_ThreeChunksFor2500 ==
    Len(articles) = 2500 =>
        /\ Len(tasks) = 3
        /\ [c \in 1..3 |-> Len(tasks[c].chunk)] = <<1000, 1000, 500>>
        /\ \A c \in 1..3 :
              /\ tasks[c].start_index = 1000 * (c - 1)
              /\ tasks[c].chunk = SubSeq(articles, tasks[c].start_index + 1,
                                         tasks[c].start_index + Len(tasks[c].chunk))
        /\ Collected => InOriginalOrder

\* the chunks of 2500 articles were completed out of order and joined
C2_Witness ==
    Len(articles) = 2500 /\ Collected /\ overtook /\ output.written

\* C3: after FastReplacer is constructed on a replacement table that cannot
\* be read or lacks a "Replace From" or a "Replace To" column, no article is
\* processed and no output file is written.
C3_ConfigErrorStopsTheRun ==
    config_error =>
        /\ \A c \in 1..Len(results) : results[c] = Pending
        /\ ~output.written

InProgress(v) == \E k \in 1..Len(progress) : progress[k] = v
\* the run of process_articles aborts: the articles table is unreadable or
\* empty, a worker raised, or an exception left process_articles
Aborts ==
    \/ ~articles_file.readable \/ articles_file.cells = <<>> \/ articles_file.columns = 0
    \/ \E c \in 1..Len(results) : results[c].state = "raised"
    \/ pc = "crashed"

\* C10: progress_callback is never called per chunk; it is called with 70
\* only after all chunk results have been joined, and with 100 only after 70
\* and after the output table has been written; on a run that aborts 100 is
\* never reported and no output is written.
C10_ProgressCheckpoints ==
    /\ progress \in {<<>>, <<PROGRESS_REPLACED>>, <<PROGRESS_REPLACED, PROGRESS_DONE>>}
    /\ pc = "mapping" => progress = <<>>
    /\ InProgress(PROGRESS_REPLACED) =>
          /\ \A c \in 1..Len(tasks) : results[c].state = "done"
          /\ updated_articles = Flatten([c \in 1..Len(tasks) |-> results[c].texts])
          /\ Len(updated_articles) = Len(articles)
    /\ InProgress(PROGRESS_DONE) => output.written /\ Len(output.rows) = Len(articles)
    /\ Aborts => ~InProgress(PROGRESS_DONE) /\ ~output.written

\* a run over several chunks reported 70 and then, the output written, 100
C10_Witness ==
    /\ pc = "done" /\ progress = <<PROGRESS_REPLACED, PROGRESS_DONE>>
    /\ Len(tasks) >= 2 /\ output.written

====
